---- MODULE Spec2Model ----
(***************************************************************************)
(* Model of the ADSB Lookup API (src/api/main.py): the CSV-backed          *)
(* DataFrame loaded at import time, the emit() telemetry helper and the    *)
(* two request handlers, GET /meta and GET /aircraft.                      *)
(*                                                                         *)
(* Text is modelled as a sequence of one-character strings so that         *)
(* str.lower(), float() and the CSV type inference are computed, not       *)
(* assumed.  Wall-clock values (t0, duration_ms, the HEC "time" field)     *)
(* and the optional SPLUNK_INDEX routing field are left out of the events: *)
(* no handler decision reads them.                                         *)
(***************************************************************************)
EXTENDS Integers, Sequences, FiniteSets, TLC

VARIABLES df, loaded, SPLUNK_HEC_URL, SPLUNK_HEC_TOKEN, request, response, io, searched

vars == <<df, loaded, SPLUNK_HEC_URL, SPLUNK_HEC_TOKEN, request, response, io, searched>>

(***************************************************************************)
(* Bounds of the model.                                                    *)
(***************************************************************************)
\* Largest number of data lines in the CSV file.
MaxRows == 2
\* Largest explicit value of the limit query parameter.
MaxLimit == 1

(***************************************************************************)
(* Python / pandas values.                                                 *)
(***************************************************************************)
\* Python None (an omitted query parameter, an unset environment variable,
\* a JSON null).
None == [k |-> "none"]
\* pandas' missing-value marker (float nan).
NaN == [k |-> "nan"]
\* A Python str holding the characters s.
Str(s) == [k |-> "str", s |-> s]
\* A Python / numpy number of value n.
Num(n) == [k |-> "num", n |-> n]

\* Python truthiness of an optional string: None and "" are falsy.
Truthy(v) == v.k = "str" /\ v.s # <<>>

UpperChars == <<"A", "B", "C", "D", "E", "F", "G", "H", "I", "J", "K", "L", "M",
                "N", "O", "P", "Q", "R", "S", "T", "U", "V", "W", "X", "Y", "Z">>
LowerChars == <<"a", "b", "c", "d", "e", "f", "g", "h", "i", "j", "k", "l", "m",
                "n", "o", "p", "q", "r", "s", "t", "u", "v", "w", "x", "y", "z">>
Digits == <<"0", "1", "2", "3", "4", "5", "6", "7", "8", "9">>

\* The lower-case letter of every upper-case letter.
LowerOf == [c \in {UpperChars[i] : i \in DOMAIN UpperChars} |->
               LowerChars[CHOOSE i \in DOMAIN UpperChars : UpperChars[i] = c]]

\* str.lower() on one character.
LowerChar(c) == IF c \in DOMAIN LowerOf THEN LowerOf[c] ELSE c

\* str.lower().
Lower(s) == [i \in DOMAIN s |-> LowerChar(s[i])]

\* The value of every decimal digit.
ValueOf == [c \in {Digits[i] : i \in DOMAIN Digits} |->
               (CHOOSE i \in DOMAIN Digits : Digits[i] = c) - 1]

IsDigit(c) == c \in DOMAIN ValueOf
DigitValue(c) == ValueOf[c]

\* Text that parses as a number (unsigned decimal digits).
IsNumericText(s) == s # <<>> /\ \A i \in DOMAIN s : IsDigit(s[i])

RECURSIVE ParseNumber(_)
\* The value of numeric text.
ParseNumber(s) ==
    IF s = <<>> THEN 0
    ELSE 10 * ParseNumber(SubSeq(s, 1, Len(s) - 1)) + DigitValue(s[Len(s)])

(***************************************************************************)
(* Results of Python expressions: a value, or a raised exception.          *)
(***************************************************************************)
Ok(v) == [exc |-> None, val |-> v]
Raise(type, msg, arg) == [exc |-> [type |-> type, msg |-> msg, arg |-> arg], val |-> None]
Raised(r) == r.exc # None

(***************************************************************************)
(* The CSV file and pd.read_csv.                                           *)
(***************************************************************************)
Columns == {"callsign", "tail", "icao24", "lat", "lon", "baro_altitude_m",
            "velocity_ms", "last_seen_utc"}

CsvRow(callsign, tail, icao24, lat, lon, alt, vel, seen) ==
    [callsign |-> callsign, tail |-> tail, icao24 |-> icao24, lat |-> lat,
     lon |-> lon, baro_altitude_m |-> alt, velocity_ms |-> vel,
     last_seen_utc |-> seen]

\* Data lines the CSV file may hold; <<>> is an empty cell.
CsvRows ==
    { CsvRow(<<"U","A","1">>, <<"N","1">>, <<"a","1">>, <<"4","0">>, <<"7","3">>,
             <<>>, <<"2","3","0">>, <<"t","1">>),
      CsvRow(<<"u","a","1">>, <<"N","2">>, <<"a","2">>, <<"0">>, <<"0">>,
             <<"0">>, <<"0">>, <<"t","2">>),
      CsvRow(<<>>, <<"n","1">>, <<>>, <<>>, <<>>,
             <<"9","0","0">>, <<>>, <<>>),
      CsvRow(<<"7","7">>, <<>>, <<"a","4">>, <<"4","1">>, <<"7","4">>,
             <<"1","0","0">>, <<"f","a","s","t">>, <<"t","4">>) }

\* The CSV files: every sequence of at most MaxRows data lines.
CsvFiles == UNION { [1..n -> CsvRows] : n \in 0..MaxRows }

\* The dtype pandas infers for a column: a column with no rows is object; a
\* column whose non-empty cells are all numeric (or that has none) is numeric;
\* any other column is object (strings, empty cells as NaN).
InferDtype(csv, c) ==
    IF Len(csv) = 0 THEN "object"
    ELSE IF \A i \in DOMAIN csv : csv[i][c] = <<>> \/ IsNumericText(csv[i][c])
         THEN "float64"
         ELSE "object"

ReadCell(text, dtype) ==
    IF text = <<>> THEN NaN
    ELSE IF dtype = "float64" THEN Num(ParseNumber(text))
    ELSE Str(text)

\* pd.read_csv(CSV_PATH): rows in file order, cells typed by column.
ReadCsv(csv) ==
    LET dtypes == [c \in Columns |-> InferDtype(csv, c)]
    IN [dtypes |-> dtypes,
        rows |-> [i \in DOMAIN csv |-> [c \in Columns |-> ReadCell(csv[i][c], dtypes[c])]]]

(***************************************************************************)
(* emit().                                                                 *)
(***************************************************************************)
\* What requests.post can do: answer 2xx, answer non-2xx (no exception is
\* raised for a status), or raise a requests.RequestException (ConnectionError
\* on a network error, Timeout, SSLError on a TLS failure).
PostOutcomes == {"2xx", "non2xx", "RequestException"}

PostRaises(post) == post = "RequestException"

\* Faulty variant: the collector counts as configured when either variable is set.
HecConfiguredEither(url, token) == Truthy(url) \/ Truthy(token)

\* `SPLUNK_HEC_URL and SPLUNK_HEC_TOKEN`.
HecConfigured(url, token) == Truthy(url) /\ Truthy(token)

\* Faulty variant: requests.post is called without the try/except.
PostEscapesUncaught(post) == PostRaises(post)

\* The exception that leaves the try/except around requests.post.
PostEscapes(post) == FALSE

\* Faulty variant: emit checks the collector's status after the try block
\* (raise_for_status), so a non-2xx answer raises out of emit.
EmitRaiseForStatus(event, url, token, post) ==
    LET printed == <<[sink |-> "stdout", line |-> event]>>
        payload == [event |-> event, sourcetype |-> "adsb_api", source |-> "fastapi"]
        posted == <<[sink |-> "hec", url |-> url, auth |-> <<"Splunk", token>>,
                     payload |-> payload, outcome |-> post]>>
    IN IF ~HecConfigured(url, token)
       THEN [exc |-> None, io |-> printed]
       ELSE IF post = "non2xx"
            THEN [exc |-> [type |-> "HTTPError", msg |-> "post failed", arg |-> <<>>],
                  io |-> printed \o posted]
            ELSE [exc |-> None, io |-> printed \o posted]

\* emit(event): the I/O it performs, in order, and the exception it lets out.
Emit(event, url, token, post) ==
    LET printed == <<[sink |-> "stdout", line |-> event]>>
        payload == [event |-> event, sourcetype |-> "adsb_api", source |-> "fastapi"]
        posted == <<[sink |-> "hec", url |-> url, auth |-> <<"Splunk", token>>,
                     payload |-> payload, outcome |-> post]>>
    IN IF ~HecConfigured(url, token)
       THEN [exc |-> None, io |-> printed]
       ELSE IF PostRaises(post) /\ PostEscapes(post)
            THEN [exc |-> [type |-> post, msg |-> "post failed", arg |-> <<>>],
                  io |-> printed \o posted]
            ELSE [exc |-> None, io |-> printed \o posted]

(***************************************************************************)
(* GET /meta.                                                              *)
(***************************************************************************)
\* The response the framework sends when a handler lets an exception out.
UnhandledResponse == [status |-> 500, body |-> [unhandled |-> TRUE]]

MetaHandler(dfv, url, token, post) ==
    LET rows == Len(dfv.rows)
        e == Emit([event |-> "meta", rows |-> rows, status |-> "ok"], url, token, post)
    IN IF e.exc # None
       THEN [response |-> UnhandledResponse, io |-> e.io]
       ELSE [response |-> [status |-> 200,
                           body |-> [rows |-> rows, data_last_updated |-> "demo-csv"]],
             io |-> e.io]

(***************************************************************************)
(* GET /aircraft.                                                          *)
(***************************************************************************)
\* The default of the limit parameter.
DefaultLimit == 25

\* d[d[col].str.lower() == q.lower()]: the .str accessor raises on a column
\* that is not of object dtype; NaN cells lower to NaN and compare unequal.
StrLowerEq(d, col, q) ==
    IF d.dtypes[col] # "object"
    THEN Raise("AttributeError", "Can only use .str accessor with string values!", <<>>)
    ELSE Ok([d EXCEPT !.rows =
                SelectSeq(d.rows, LAMBDA r : r[col].k = "str" /\ Lower(r[col].s) = Lower(q))])

\* d.head(n): the first n rows, or all but the last -n rows when n < 0.
DfHead(d, n) ==
    LET len == Len(d.rows)
        keep == IF n >= 0 THEN (IF n < len THEN n ELSE len)
                ELSE (IF len + n > 0 THEN len + n ELSE 0)
    IN [d EXCEPT !.rows = SubSeq(d.rows, 1, keep)]

\* Faulty variant: the tail filter is applied to df instead of d, so it replaces the
\* callsign filter.
SearchTailOnDf(dfv, callsign, tail, limit) ==
    LET r1 == IF Truthy(callsign) THEN StrLowerEq(dfv, "callsign", callsign.s) ELSE Ok(dfv)
        r2 == IF Raised(r1) THEN r1
              ELSE IF Truthy(tail) THEN StrLowerEq(dfv, "tail", tail.s) ELSE r1
    IN IF Raised(r2) THEN r2 ELSE Ok(DfHead(r2.val, limit))

\* Lines 165-171: the filters and the truncation.
Search(dfv, callsign, tail, limit) ==
    LET r1 == IF Truthy(callsign) THEN StrLowerEq(dfv, "callsign", callsign.s) ELSE Ok(dfv)
        r2 == IF Raised(r1) THEN r1
              ELSE IF Truthy(tail) THEN StrLowerEq(r1.val, "tail", tail.s) ELSE r1
    IN IF Raised(r2) THEN r2 ELSE Ok(DfHead(r2.val, limit))

\* float(x) for a cell that is not NaN.
PyFloat(cell) ==
    IF cell.k = "num" THEN Ok(Num(cell.n))
    ELSE IF IsNumericText(cell.s) THEN Ok(Num(ParseNumber(cell.s)))
    ELSE Raise("ValueError", "could not convert string to float", cell.s)

\* Faulty variant: a missing value is rendered as 0.
NumericFieldZero(cell) == IF cell.k # "nan" THEN PyFloat(cell) ELSE Ok(Num(0))

\* float(r[c]) if pd.notna(r[c]) else None
NumericField(cell) == IF cell.k # "nan" THEN PyFloat(cell) ELSE Ok(None)

\* The dict appended to out for one row; the numeric fields are evaluated in
\* the order lat, lon, altitude_m, velocity_ms and the first failure raises.
ProjectRow(r) ==
    LET lat == NumericField(r["lat"])
        lon == NumericField(r["lon"])
        alt == NumericField(r["baro_altitude_m"])
        vel == NumericField(r["velocity_ms"])
    IN IF Raised(lat) THEN lat
       ELSE IF Raised(lon) THEN lon
       ELSE IF Raised(alt) THEN alt
       ELSE IF Raised(vel) THEN vel
       ELSE Ok([callsign |-> r["callsign"], tail |-> r["tail"], icao24 |-> r["icao24"],
                lat |-> lat.val, lon |-> lon.val, altitude_m |-> alt.val,
                velocity_ms |-> vel.val, last_seen_utc |-> r["last_seen_utc"]])

RECURSIVE ProjectRows(_)
\* Lines 175-186: the loop over d.iterrows().
ProjectRows(rows) ==
    IF rows = <<>> THEN Ok(<<>>)
    ELSE LET first == ProjectRow(Head(rows))
         IN IF Raised(first) THEN first
            ELSE LET rest == ProjectRows(Tail(rows))
                 IN IF Raised(rest) THEN rest ELSE Ok(<<first.val>> \o rest.val)

QueryType(callsign, tail) ==
    IF Truthy(callsign) THEN "callsign" ELSE IF Truthy(tail) THEN "tail" ELSE "none"

SearchEvent(callsign, tail, out) ==
    [event |-> "aircraft_search", query_type |-> QueryType(callsign, tail),
     callsign |-> callsign, tail |-> tail, rowcount |-> Len(out), status |-> "ok",
     app_version |-> "demo-0.1"]

ErrorEvent(callsign, tail, limit, e) ==
    [event |-> "error", route |-> "/aircraft", query_type |-> QueryType(callsign, tail),
     callsign |-> callsign, tail |-> tail, limit |-> limit, status |-> "error",
     error_type |-> e.type, error_msg |-> <<e.msg, e.arg>>]

\* Faulty variant: the exception text is put in the response (detail=str(e)).
ErrorResponseLeaks(e) == [status |-> 500, body |-> [detail |-> e.msg]]

\* HTTPException(status_code=500, detail="Internal server error")
ErrorResponse(e) == [status |-> 500, body |-> [detail |-> "Internal server error"]]

\* Faulty variant: the filters and the truncation are applied to the global frame.
GlobalRebound(dfv, d) == d

\* The module global df after the handler's `d = df; d = d[...]`: the local
\* name is rebound to new frames, the global is not assigned.
GlobalAfterSearch(dfv, d) == dfv

AircraftHandler(dfv, callsign, tail, limit, url, token, post) ==
    LET s == Search(dfv, callsign, tail, limit)
        p == IF Raised(s) THEN s ELSE ProjectRows(s.val.rows)
        e1 == IF Raised(p) THEN [exc |-> p.exc, io |-> <<>>]
              ELSE Emit(SearchEvent(callsign, tail, p.val), url, token, post)
    IN IF e1.exc = None
       THEN [response |-> [status |-> 200, body |-> p.val], io |-> e1.io,
             df |-> GlobalAfterSearch(dfv, s.val)]
       ELSE LET e2 == Emit(ErrorEvent(callsign, tail, limit, e1.exc), url, token, post)
                g == IF Raised(s) THEN dfv ELSE GlobalAfterSearch(dfv, s.val)
            IN IF e2.exc = None
               THEN [response |-> ErrorResponse(e1.exc), io |-> e1.io \o e2.io, df |-> g]
               ELSE [response |-> UnhandledResponse, io |-> e1.io \o e2.io, df |-> g]

(***************************************************************************)
(* The state machine.  df is the module global; loaded records the frame   *)
(* read at startup and searched whether a /aircraft request has been       *)
(* served; request, response and io describe the request served last: its  *)
(* parameters, what the caller got, and the sink operations emit() made    *)
(* while it was served, in order.                                          *)
(***************************************************************************)
\* Values of the callsign query parameter.
CallsignQueries == {None, Str(<<>>), Str(<<"u","a","1">>), Str(<<"U","A","1">>)}
\* Values of the tail query parameter.
TailQueries == {None, Str(<<"n","1">>)}
\* Values of the limit query parameter (None: omitted).
LimitQueries == {None} \cup {Num(n) : n \in -1..MaxLimit}
\* Values of the two environment variables.
EnvValues == {None, Str(<<"x">>)}

\* The outcomes the collector can have for a request; it is not contacted
\* when HEC is not configured.
Posts == IF HecConfigured(SPLUNK_HEC_URL, SPLUNK_HEC_TOKEN) THEN PostOutcomes ELSE {"2xx"}

Init ==
    /\ \E csv \in CsvFiles : df = ReadCsv(csv)
    /\ loaded = df
    /\ SPLUNK_HEC_URL \in EnvValues
    /\ SPLUNK_HEC_TOKEN \in EnvValues
    /\ request = [route |-> "none"]
    /\ response = [status |-> 0]
    /\ io = <<>>
    /\ searched = FALSE

Meta ==
    \E post \in Posts :
        LET h == MetaHandler(df, SPLUNK_HEC_URL, SPLUNK_HEC_TOKEN, post)
        IN /\ request' = [route |-> "/meta"]
           /\ response' = h.response
           /\ io' = h.io
           /\ UNCHANGED <<df, loaded, SPLUNK_HEC_URL, SPLUNK_HEC_TOKEN, searched>>

Aircraft ==
    \E callsign \in CallsignQueries, tail \in TailQueries, lim \in LimitQueries,
       post \in Posts :
        LET limit == IF lim = None THEN DefaultLimit ELSE lim.n
            h == AircraftHandler(df, callsign, tail, limit,
                                 SPLUNK_HEC_URL, SPLUNK_HEC_TOKEN, post)
        IN /\ request' = [route |-> "/aircraft", callsign |-> callsign, tail |-> tail,
                          limit |-> lim]
           /\ response' = h.response
           /\ io' = h.io
           /\ df' = h.df
           /\ searched' = TRUE
           /\ UNCHANGED <<loaded, SPLUNK_HEC_URL, SPLUNK_HEC_TOKEN>>

Next == Meta \/ Aircraft

Spec == Init /\ [][Next]_vars

(***************************************************************************)
(* What the specification says a search returns, stated without the        *)
(* handler's operators.                                                    *)
(***************************************************************************)
NumericColumns == {"lat", "lon", "baro_altitude_m", "velocity_ms"}

\* The limit the request served last asked for.
ReqLimit == IF request.limit = None THEN DefaultLimit ELSE request.limit.n

\* Exact match: equality after lowercasing both operands; null never matches.
MatchesCI(cell, q) == cell.k = "str" /\ Lower(cell.s) = Lower(q)

\* The records of rows that pass the filters provided (non-empty).
Candidates(rows, callsign, tail) ==
    SelectSeq(rows, LAMBDA r :
        /\ Truthy(callsign) => MatchesCI(r["callsign"], callsign.s)
        /\ Truthy(tail) => MatchesCI(r["tail"], tail.s))

\* The first n entries of a sequence.
Take(seq, n) == SubSeq(seq, 1, IF n < Len(seq) THEN n ELSE Len(seq))

\* The fields that pass through the projection unchanged identify a record.
Keys(seq) ==
    [i \in DOMAIN seq |->
        <<seq[i]["callsign"], seq[i]["tail"], seq[i]["icao24"], seq[i]["last_seen_utc"]>>]

IsPrefix(a, b) == Len(a) <= Len(b) /\ a = SubSeq(b, 1, Len(a))

\* A record none of whose numeric cells is malformed (section 4.2 lets a
\* request over a malformed record fail with an internal error).
WellFormed(r) ==
    \A c \in NumericColumns :
        r[c].k \in {"nan", "num"} \/ (r[c].k = "str" /\ IsNumericText(r[c].s))

AllWellFormed(seq) == \A i \in DOMAIN seq : WellFormed(seq[i])

\* The number a source cell holds.
SourceNumber(cell) == IF cell.k = "num" THEN cell.n ELSE ParseNumber(cell.s)

IsAircraft == request.route = "/aircraft"
IsMeta == request.route = "/meta"

\* The sink operations of the request served last that went to stdout / HEC.
Printed == SelectSeq(io, LAMBDA x : x.sink = "stdout")
Posted == SelectSeq(io, LAMBDA x : x.sink = "hec")

\* Remote delivery failed: requests.post raised, or the collector refused.
DeliveryFailed(x) == x.outcome \in {"non2xx", "RequestException"}

(***************************************************************************)
(* C1.                                                                     *)
(***************************************************************************)
\* C1: for every dataset and every non-empty callsign query, with no tail
\* filter and a non-negative limit, GET /aircraft returns exactly the records
\* whose callsign equals the query after lowercasing both, in dataset order,
\* truncated to limit; a record with a null callsign is never returned.
\* (A request whose result holds a malformed numeric cell may fail, 4.2.)
C1_CallsignQueryExact ==
    (IsAircraft /\ Truthy(request.callsign) /\ ~Truthy(request.tail) /\ ReqLimit >= 0) =>
        LET want == Take(Candidates(loaded.rows, request.callsign, None), ReqLimit)
        IN AllWellFormed(want) =>
              /\ response.status = 200
              /\ Keys(response.body) = Keys(want)
              /\ \A i \in DOMAIN response.body : response.body[i]["callsign"].k = "str"

(***************************************************************************)
(* C2.                                                                     *)
(***************************************************************************)
\* C2: when both callsign and tail are provided (non-empty), GET /aircraft
\* returns only records that match both filters: the records returned are a
\* prefix of the records matching both, never one that matches only one.
C2_BothFiltersIntersect ==
    (IsAircraft /\ Truthy(request.callsign) /\ Truthy(request.tail)
        /\ response.status = 200) =>
        /\ \A i \in DOMAIN response.body :
              /\ MatchesCI(response.body[i]["callsign"], request.callsign.s)
              /\ MatchesCI(response.body[i]["tail"], request.tail.s)
        /\ IsPrefix(Keys(response.body),
                    Keys(Candidates(loaded.rows, request.callsign, request.tail)))

\* A both-filter search that returned a record while the dataset also holds a
\* record matching the callsign alone and one matching the tail alone.
C2_Witness ==
    /\ IsAircraft /\ Truthy(request.callsign) /\ Truthy(request.tail)
    /\ response.status = 200 /\ Len(response.body) >= 1
    /\ \E i \in DOMAIN loaded.rows :
          /\ MatchesCI(loaded.rows[i]["callsign"], request.callsign.s)
          /\ ~MatchesCI(loaded.rows[i]["tail"], request.tail.s)

(***************************************************************************)
(* C3.                                                                     *)
(***************************************************************************)
\* C3: for every non-negative limit the result of GET /aircraft is the first
\* limit entries of the (possibly filtered) record sequence in original order:
\* limit=0 returns an empty sequence, an omitted limit behaves as limit=25, and
\* with neither filter the candidate sequence is the whole dataset.
\* (A request whose result holds a malformed numeric cell may fail, 4.2.)
C3_LimitPrefix ==
    (IsAircraft /\ ReqLimit >= 0) =>
        LET all == Candidates(loaded.rows, request.callsign, request.tail)
            want == Take(all, IF request.limit = None THEN 25 ELSE request.limit.n)
        IN AllWellFormed(want) =>
              /\ response.status = 200
              /\ Keys(response.body) = Keys(want)
              /\ request.limit = Num(0) => response.body = <<>>
              /\ (~Truthy(request.callsign) /\ ~Truthy(request.tail))
                    => all = loaded.rows

(***************************************************************************)
(* C4.                                                                     *)
(***************************************************************************)
\* C4: a request whose limit is negative yields an empty or error response
\* that is not a 500, and never a non-empty list of aircraft records.
C4_NegativeLimitRejected ==
    (IsAircraft /\ request.limit # None /\ request.limit.n < 0) =>
        /\ response.status # 500
        /\ response.status = 200 => response.body = <<>>

(***************************************************************************)
(* C5.                                                                     *)
(***************************************************************************)
\* C5: every record returned by GET /aircraft has each of lat, lon, altitude_m
\* and velocity_ms equal to the source value when it is present and equal to
\* an explicit null when the source value (lat, lon, baro_altitude_m,
\* velocity_ms) is missing; a null is never rendered as 0 and the field is
\* never omitted.
C5_NullNumericsPropagate ==
    (IsAircraft /\ response.status = 200) =>
        LET src == Search(loaded, request.callsign, request.tail, ReqLimit).val.rows
            Same(out, cell) == IF cell.k = "nan" THEN out = None
                               ELSE out = Num(SourceNumber(cell))
        IN /\ Len(response.body) = Len(src)
           /\ \A i \in DOMAIN response.body :
                 /\ {"lat", "lon", "altitude_m", "velocity_ms"} \subseteq DOMAIN response.body[i]
                 /\ Same(response.body[i]["lat"], src[i]["lat"])
                 /\ Same(response.body[i]["lon"], src[i]["lon"])
                 /\ Same(response.body[i]["altitude_m"], src[i]["baro_altitude_m"])
                 /\ Same(response.body[i]["velocity_ms"], src[i]["velocity_ms"])

\* The scenario of section 8: a returned record with a null altitude and a
\* present velocity of 230.
C5_Witness ==
    /\ IsAircraft /\ response.status = 200
    /\ \E i \in DOMAIN response.body :
          /\ response.body[i]["altitude_m"] = None
          /\ response.body[i]["velocity_ms"] = Num(230)
          /\ response.body[i]["lat"] = Num(40)

(***************************************************************************)
(* C6.                                                                     *)
(***************************************************************************)
\* The response of the request served last computed from the dataset and the
\* request alone, with no telemetry.
ResponseWithoutTelemetry ==
    IF IsMeta
    THEN [status |-> 200,
          body |-> [rows |-> Len(loaded.rows), data_last_updated |-> "demo-csv"]]
    ELSE LET s == Search(loaded, request.callsign, request.tail, ReqLimit)
             p == IF Raised(s) THEN s ELSE ProjectRows(s.val.rows)
         IN IF Raised(p)
            THEN [status |-> 500, body |-> [detail |-> "Internal server error"]]
            ELSE [status |-> 200, body |-> p.val]

\* C6: a failure of the remote delivery step of emit never propagates out of
\* emit and never changes the HTTP response: the status and body of /meta and
\* /aircraft are the same whether remote delivery succeeds, fails or is skipped.
C6_DeliveryNeverChangesResponse ==
    (IsMeta \/ IsAircraft) =>
        /\ response = ResponseWithoutTelemetry
        /\ response # UnhandledResponse

\* A /meta request answered 200 although the delivery of its event failed.
C6_Witness ==
    /\ IsMeta /\ response.status = 200
    /\ Len(Posted) = 1 /\ DeliveryFailed(Posted[1])

(***************************************************************************)
(* C7.                                                                     *)
(***************************************************************************)
\* C7: for every call of emit the event is written to the console first, and
\* a remote delivery is attempted only if both the collector URL and the token
\* are configured: with either missing no network call is made, with both
\* present exactly one attempt is made per emitted event (no retry).
C7_ConsoleFirstOneAttempt ==
    LET both == /\ SPLUNK_HEC_URL # None /\ SPLUNK_HEC_URL.s # <<>>
                /\ SPLUNK_HEC_TOKEN # None /\ SPLUNK_HEC_TOKEN.s # <<>>
    IN (IsMeta \/ IsAircraft) =>
          /\ Len(Printed) >= 1
          /\ io[1].sink = "stdout"
          /\ ~both => Posted = <<>>
          /\ both =>
                /\ Len(io) = 2 * Len(Printed)
                /\ \A j \in 1..Len(Printed) :
                      /\ io[2 * j - 1].sink = "stdout"
                      /\ io[2 * j].sink = "hec"
                      /\ io[2 * j].payload.event = io[2 * j - 1].line

\* Both variables set, the one delivery attempt raised, and nothing followed it.
C7_Witness ==
    /\ IsAircraft /\ response.status = 200
    /\ Truthy(SPLUNK_HEC_URL) /\ Truthy(SPLUNK_HEC_TOKEN)
    /\ Len(io) = 2 /\ io[1].sink = "stdout" /\ io[2].sink = "hec"
    /\ io[2].outcome = "RequestException"

(***************************************************************************)
(* C8.                                                                     *)
(***************************************************************************)
\* C8: whenever an exception is raised during search or projection in the
\* aircraft handler, the handler emits an "error" event carrying the error
\* type and message and returns status 500 with the fixed detail "Internal
\* server error"; the response never contains the raw exception text.
C8_ExceptionsBecomeGeneric500 ==
    IsAircraft =>
        LET s == Search(loaded, request.callsign, request.tail, ReqLimit)
            p == IF Raised(s) THEN s ELSE ProjectRows(s.val.rows)
        IN Raised(p) =>
              /\ response.status = 500
              /\ response.body = [detail |-> "Internal server error"]
              /\ response.body.detail # p.exc.msg
              /\ Len(Printed) = 1
              /\ Printed[1].line.event = "error"
              /\ Printed[1].line.error_type = p.exc.type
              /\ Printed[1].line.error_msg = <<p.exc.msg, p.exc.arg>>

\* A non-numeric value in a numeric field made float() raise.
C8_Witness ==
    /\ IsAircraft /\ response.status = 500
    /\ Len(Printed) = 1
    /\ Printed[1].line.event = "error"
    /\ Printed[1].line.error_type = "ValueError"
    /\ Printed[1].line.error_msg[2] = <<"f", "a", "s", "t">>

(***************************************************************************)
(* C9.                                                                     *)
(***************************************************************************)
\* C9: the loaded record set is unchanged by every request: after any
\* sequence of /meta and /aircraft requests the dataset equals the set loaded
\* at startup, and /meta reports exactly its record count in its response and
\* in its "meta" event.
C9_DatasetImmutable ==
    /\ df = loaded
    /\ IsMeta =>
          /\ response.status = 200
          /\ response.body.rows = Len(loaded.rows)
          /\ Len(Printed) = 1
          /\ Printed[1].line.event = "meta"
          /\ Printed[1].line.rows = Len(loaded.rows)

\* A /meta request served after a /aircraft request, over a dataset of two
\* records.
C9_Witness ==
    /\ IsMeta /\ searched
    /\ Len(loaded.rows) = 2
    /\ response.body.rows = 2

(***************************************************************************)
(* C10.                                                                    *)
(***************************************************************************)
\* C10: every /aircraft request emits exactly one telemetry event: an
\* "aircraft_search" event when the response is 200 and an "error" event when
\* it is 500, never both and never the same kind twice, also when the remote
\* delivery of the event fails.
C10_OneEventPerSearch ==
    IsAircraft =>
        /\ response.status \in {200, 500}
        /\ Len(Printed) = 1
        /\ response.status = 200 => Printed[1].line.event = "aircraft_search"
        /\ response.status = 500 => Printed[1].line.event = "error"

\* A search that failed and whose one "error" event could not be delivered.
C10_Witness ==
    /\ IsAircraft /\ response.status = 500
    /\ Len(Printed) = 1 /\ Printed[1].line.event = "error"
    /\ Len(Posted) = 1 /\ Posted[1].outcome = "RequestException"

====
